---- MODULE Spec2Model ----
(***************************************************************************)
(* Model of streamlit_app.py: the Ichimoku indicator computation, the      *)
(* first-5-candles trading heuristic, the CSV trade log and the main       *)
(* driver of the dashboard.                                                *)
(*                                                                         *)
(* Representation.                                                         *)
(*   - A DataFrame is a record [isNone, rows]; rows is the sequence of its *)
(*     rows (row at pandas position i is rows[i+1]); isNone = TRUE is the  *)
(*     Python value None.                                                  *)
(*   - A pandas Series is a function from positions 0..N-1 to cells; a     *)
(*     cell is <<v>> for the value v and <<>> for NaN.                     *)
(*   - A price is a float64: the number m * 2^e with m below 2^53, kept as *)
(*     [m, e].  Sums and quotients are rounded to the nearest double, ties *)
(*     to even, as the hardware does; m is a digit sequence because a      *)
(*     53-bit significand does not fit a machine integer of the checker.   *)
(*   - Every streamlit call (st.title, st.write, st.text_input,            *)
(*     st.number_input, st.error, st.success, st.info, st.plotly_chart)    *)
(*     is recorded in st_out, in call order.                               *)
(*   - trade_log.csv is the sequence log of the row texts written to it,   *)
(*     in file order.  A row text is complete (all four fields and the     *)
(*     line end) or torn: a proper, non-empty prefix of the row's text,    *)
(*     left by a write that failed part-way.  Whatever is written next     *)
(*     follows a torn text on the same line.                               *)
(*   - The file has no `import logging`: the name is unbound when line 11  *)
(*     and the except handlers of lines 31 and 45 run, and they raise      *)
(*     NameError.  logging_bound = TRUE is the file run by a host that     *)
(*     provides the name; only then does a run get past line 11.           *)
(***************************************************************************)
EXTENDS Integers, Sequences, FiniteSets

VARIABLES
    data,                 \* the Quote Series handed to the core (DataFrame or None)
    log,                  \* row texts of trade_log.csv, in file order
    storage,              \* what a write to trade_log.csv meets: see StorageModes
    ret,                  \* the last call: function, arguments, return value or exception
    st_out,               \* streamlit calls made so far by the call or run in progress
    pc,                   \* position of the script
    session,              \* main(): value returned by etrade_oauth()
    symbol,               \* main(): text of the symbol input
    logging_bound         \* whether the global name `logging` is bound

vars == <<data, log, storage, ret, st_out, pc, session, symbol, logging_bound>>

\* ------------------------------------------------------------------ bounds
MaxLen == 79              \* longest Quote Series given to calculate_ichimoku
MaxShortLen == 6          \* longest of the short Quote Series given to both functions
NumSeeds == 3             \* number of distinct generated series per length
MaxLog == 2               \* cap on the number of row texts in trade_log.csv
MaxTarget == 1            \* target prices are 0, 20, .., 20*MaxTarget
MaxQuotes == 2            \* QuoteData entries in one upstream response

\* ------------------------------------------------------- program constants
TenkanWindow == 9
KijunWindow == 26
SenkouBWindow == 52
ShiftPeriods == 26
MinIchimokuLen == 52
MinStrategyLen == 5
HeadCount == 5

\* ----------------------------------------------------------------- values
NaN == << >>
Num(v) == << v >>
IsNum(c) == c # NaN

\* ------------------------------------------------- natural numbers, any size
\* A natural number is the sequence of its digits in base 2^LimbBits, lowest
\* first, without leading zero digits; << >> is 0.
LimbBits == 15
Base == 2 ^ LimbBits

BFromInt(n) ==
    IF n = 0 THEN << >>
    ELSE IF n < Base THEN <<n>>
    ELSE IF n < Base * Base THEN <<n % Base, n \div Base>>
    ELSE <<n % Base, (n \div Base) % Base, n \div (Base * Base)>>

RECURSIVE BTrim(_)
BTrim(x) ==
    IF x # << >> /\ x[Len(x)] = 0 THEN BTrim(SubSeq(x, 1, Len(x) - 1)) ELSE x

RECURSIVE BAddFrom(_, _, _, _)
BAddFrom(x, y, i, carry) ==
    IF i > Len(x) /\ i > Len(y)
    THEN IF carry = 0 THEN << >> ELSE <<carry>>
    ELSE LET t == (IF i <= Len(x) THEN x[i] ELSE 0)
                  + (IF i <= Len(y) THEN y[i] ELSE 0) + carry
         IN <<t % Base>> \o BAddFrom(x, y, i + 1, t \div Base)

BAdd(x, y) == BAddFrom(x, y, 1, 0)

\* x * n for 0 < n < Base
RECURSIVE BMulFrom(_, _, _, _)
BMulFrom(x, n, i, carry) ==
    IF i > Len(x)
    THEN IF carry = 0 THEN << >> ELSE <<carry>>
    ELSE LET t == x[i] * n + carry
         IN <<t % Base>> \o BMulFrom(x, n, i + 1, t \div Base)

BMulSmall(x, n) == BMulFrom(x, n, 1, 0)

\* x divided by n, 0 < n < Base: [quot, rem], from the highest digit down
RECURSIVE BDivFrom(_, _, _, _)
BDivFrom(x, n, i, rem) ==
    IF i = 0 THEN [quot |-> << >>, rem |-> rem]
    ELSE LET t == rem * Base + x[i]
             rest == BDivFrom(x, n, i - 1, t % n)
         IN [quot |-> Append(rest.quot, t \div n), rem |-> rest.rem]

BDivSmall(x, n) ==
    LET r == BDivFrom(x, n, Len(x), 0)
    IN [quot |-> BTrim(r.quot), rem |-> r.rem]

Zeros(q) == [j \in 1 .. q |-> 0]

\* x * 2^k
BShl(x, k) ==
    IF x = << >> THEN << >>
    ELSE Zeros(k \div LimbBits) \o BMulSmall(x, 2 ^ (k % LimbBits))

\* x \div 2^k
BShr(x, k) ==
    IF k \div LimbBits >= Len(x) THEN << >>
    ELSE BDivSmall(SubSeq(x, (k \div LimbBits) + 1, Len(x)), 2 ^ (k % LimbBits)).quot

\* bit i of x (bit 0 is the lowest)
BBit(x, i) ==
    IF i \div LimbBits >= Len(x) THEN 0
    ELSE (x[(i \div LimbBits) + 1] \div (2 ^ (i % LimbBits))) % 2

\* whether some bit of x below bit i is set
BLowBits(x, i) ==
    \/ \E j \in 1 .. i \div LimbBits : j <= Len(x) /\ x[j] # 0
    \/ /\ i \div LimbBits < Len(x)
       /\ x[(i \div LimbBits) + 1] % (2 ^ (i % LimbBits)) # 0

RECURSIVE IntBitLen(_)
IntBitLen(n) == IF n = 0 THEN 0 ELSE 1 + IntBitLen(n \div 2)

BBitLen(x) == IF x = << >> THEN 0 ELSE LimbBits * (Len(x) - 1) + IntBitLen(x[Len(x)])

RECURSIVE IntTrailingZeros(_)
IntTrailingZeros(n) == IF n % 2 = 1 THEN 0 ELSE 1 + IntTrailingZeros(n \div 2)

\* number of zero bits below the lowest set bit of x # 0
BTrailingZeros(x) ==
    LET j == CHOOSE j \in 1 .. Len(x) : x[j] # 0 /\ \A h \in 1 .. j - 1 : x[h] = 0
    IN LimbBits * (j - 1) + IntTrailingZeros(x[j])

\* x < y
RECURSIVE BLessFrom(_, _, _)
BLessFrom(x, y, i) ==
    IF i = 0 THEN FALSE
    ELSE IF x[i] # y[i] THEN x[i] < y[i]
    ELSE BLessFrom(x, y, i - 1)

BLess(x, y) ==
    IF Len(x) # Len(y) THEN Len(x) < Len(y) ELSE BLessFrom(x, y, Len(x))

\* ------------------------------------------------------------ float64 values
\* A non-negative double is [m, e]: the number m * 2^e with m odd and below
\* 2^53, or m = 0 and e = 0.  Exponent overflow and underflow are out of the
\* range of the prices and are not modelled.
Precision == 53

\* m * 2^e in the form with m odd
Dyadic(m, e) ==
    IF m = << >> THEN [m |-> << >>, e |-> 0]
    ELSE LET tz == BTrailingZeros(m)
         IN [m |-> BShr(m, tz), e |-> e + tz]

\* The double nearest to m * 2^e (plus a positive amount below one unit of
\* m's last place when sticky), ties to even
Round53(m, e, sticky) ==
    LET k == BBitLen(m) - Precision
    IN IF k <= 0 THEN Dyadic(m, e)
       ELSE LET q == BShr(m, k)
                up == /\ BBit(m, k - 1) = 1
                      /\ (sticky \/ BLowBits(m, k - 1) \/ BBit(q, 0) = 1)
            IN Dyadic(IF up THEN BAdd(q, <<1>>) ELSE q, e + k)

\* float(n) of a whole number 0 <= n < 2^31
FromInt(n) == Dyadic(BFromInt(n), 0)

\* a + b
FAdd(a, b) ==
    LET e == IF a.e < b.e THEN a.e ELSE b.e
    IN Round53(BAdd(BShl(a.m, a.e - e), BShl(b.m, b.e - e)), e, FALSE)

\* a / 2
FHalf(a) == IF a.m = << >> THEN a ELSE [m |-> a.m, e |-> a.e - 1]

\* a / n for a whole number 0 < n < Base
FDivInt(a, n) ==
    LET d == BDivSmall(BShl(a.m, 75), n)
    IN Round53(d.quot, a.e - 75, d.rem # 0)

\* a < b
FLess(a, b) ==
    LET e == IF a.e < b.e THEN a.e ELSE b.e
    IN BLess(BShl(a.m, a.e - e), BShl(b.m, b.e - e))

\* The double of the decimal numeral n / d (as float("0.11") for 11 / 100)
FromRatio(n, d) == FDivInt(FromInt(n), d)

\* a < b of two cells; a comparison with NaN is false
CellLess(c, d) == IsNum(c) /\ IsNum(d) /\ FLess(c[1], d[1])

\* max and min of a non-empty set of doubles
RECURSIVE Max(_)
Max(S) ==
    LET x == CHOOSE y \in S : TRUE
    IN IF S = {x} THEN x
       ELSE LET m == Max(S \ {x}) IN IF FLess(m, x) THEN x ELSE m

RECURSIVE Min(_)
Min(S) ==
    LET x == CHOOSE y \in S : TRUE
    IN IF S = {x} THEN x
       ELSE LET m == Min(S \ {x}) IN IF FLess(x, m) THEN x ELSE m

NoneFrame == [isNone |-> TRUE, rows |-> << >>]
Frame(rs) == [isNone |-> FALSE, rows |-> rs]

\* len(data)
FrameLen(d) == Len(d.rows)

\* data[col] : the column as a Series over positions 0..N-1
Column(d, col) == [i \in 0 .. FrameLen(d) - 1 |-> Num(d.rows[i + 1][col])]


\* ------------------------------------------------- pandas Series operators
\* s.rolling(window=w).max(): NaN until w observations are in the window
RollingMax(s, w) ==
    [i \in DOMAIN s |->
        IF i - w + 1 \in DOMAIN s /\ \A j \in (i - w + 1) .. i : IsNum(s[j])
        THEN Num(Max({s[j][1] : j \in (i - w + 1) .. i}))
        ELSE NaN]

\* s.rolling(window=w).min()
RollingMin(s, w) ==
    [i \in DOMAIN s |->
        IF i - w + 1 \in DOMAIN s /\ \A j \in (i - w + 1) .. i : IsNum(s[j])
        THEN Num(Min({s[j][1] : j \in (i - w + 1) .. i}))
        ELSE NaN]

\* s + t, position by position; NaN propagates
SeriesAdd(s, t) ==
    [i \in DOMAIN s |->
        IF IsNum(s[i]) /\ IsNum(t[i]) THEN Num(FAdd(s[i][1], t[i][1])) ELSE NaN]

\* s / 2
SeriesHalf(s) ==
    [i \in DOMAIN s |-> IF IsNum(s[i]) THEN Num(FHalf(s[i][1])) ELSE NaN]

\* s.shift(k): the value at position i moves to i + k; same index, NaN fill
Shift(s, k) ==
    [i \in DOMAIN s |-> IF i - k \in DOMAIN s THEN s[i - k] ELSE NaN]

\* s.head(n)
SeriesHead(s, n) == [i \in {j \in DOMAIN s : j < n} |-> s[i]]

\* The sum of the non-NaN cells at the positions below n of a Series on
\* 0..N-1, added one after the other from position 0, starting from 0.0
RECURSIVE SumCells(_, _)
SumCells(s, n) ==
    IF n = 0 THEN FromInt(0)
    ELSE IF IsNum(s[n - 1]) THEN FAdd(SumCells(s, n - 1), s[n - 1][1])
    ELSE SumCells(s, n - 1)

\* s.mean(): the sum of the non-NaN cells over their count; NaN without any
Mean(s) ==
    LET count == Cardinality({i \in DOMAIN s : IsNum(s[i])})
    IN IF count = 0 THEN NaN
       ELSE Num(FDivInt(SumCells(s, Cardinality(DOMAIN s)), count))

\* ------------------------------------------------------ the Quote Series
\* The prices are whole numbers (den = 1) or have two decimals (den = 100):
\* the double of the numeral c / den
Denominators == {1, 100}

\* The doubles of the numerals c / den the generated rows use
Numerals == 0 .. 12 + (MaxLen + 1) \div 5 + MaxQuotes
Price == [den \in Denominators |-> [c \in Numerals |-> FromRatio(c, den)]]

\* Row i (pandas position) of the generated series number k.  The columns
\* are the ones the program reads: symbol, open, high, low, close, lastTrade.
\* Highs and lows vary with period 7 and 3, the closes rise after the first
\* five rows, so that windows, shifts and head/tail are told apart.
MkRow(i, k, den) ==
    LET hi == 10 + ((i * (k + 2) + k * k) % 7)
        lo == hi - (1 + ((i * k + 1) % 3))
    IN [symbol    |-> IF (i + k) % 2 = 1 THEN "AAPL" ELSE "MSFT",
        open      |-> Price[den][11 + 2 * ((i + k + 1) % 2)],
        high      |-> Price[den][hi],
        low       |-> Price[den][lo],
        close     |-> Price[den][11 + ((i * (k + 1)) % 4) + (i \div 5)],
        lastTrade |-> Price[den][lo + ((i + k) % 2)]]

MkFrame(n, k, den) == Frame([j \in 1 .. n |-> MkRow(j - 1, k, den)])

\* Every length up to MaxLen: the inputs of the indicator computation
QuoteSeries ==
    {NoneFrame} \cup {MkFrame(n, k, den) :
                         n \in 0 .. MaxLen, k \in 1 .. NumSeeds, den \in Denominators}

\* Lengths around the strategy's threshold: the inputs of the strategy and
\* the trade log
ShortSeries ==
    {NoneFrame} \cup {MkFrame(n, k, den) :
                         n \in 0 .. MaxShortLen, k \in 1 .. NumSeeds, den \in Denominators}

\* st.number_input(min_value=0.0): the target prices tried
TargetPrices == {20 * t : t \in 0 .. MaxTarget}

\* datetime.datetime.now(): the instant of the call; nothing reads it back
Clock == {0}

\* What log_trade meets when it writes:
\*   "ok"          the row is written
\*   "unwritable"  open() raises, or the write fails with nothing written
\*   "full"        open() succeeds and the write fails part-way
StorageModes == {"ok", "unwritable", "full"}

\* ------------------------------------------------------ streamlit calls
Msg(level, text) == [level |-> level, text |-> text]
ErrIchimoku == Msg("error", "Not enough data for Ichimoku Cloud calculation.")
ErrStrategy == Msg("error", "Not enough data to apply the strategy.")
MsgCall     == Msg("success", "Average close is above the first open; buying calls")
MsgPut      == Msg("success", "Average close is below the first open; buying puts")
MsgHold     == Msg("info", "Average close is equal to the first open; no action recommended.")
MsgLogged   == Msg("success", "Trade logged")
ErrNoData   == Msg("error", "No data available for the given symbol.")
ErrFetch    == Msg("error", "Failed to fetch stock data.")
ErrAuth     == Msg("error", "Authentication failed, please check your credentials and network connection.")
MsgTitle    == Msg("title", "Trading App with E*TRADE Sandbox and Ichimoku Strategy")
MsgAuthUrl  == Msg("write", "Please authenticate by visiting this URL:")
MsgVerifier == Msg("text_input", "Enter the verifier code here:")
MsgSymbol   == Msg("text_input", "Enter stock symbol:")
MsgTarget   == Msg("number_input", "Enter your target price for trade execution:")
MsgData     == Msg("write", "data")
MsgChart    == Msg("plotly_chart", "fig")

\* ------------------------------------------------------ calculate_ichimoku
\* (mutant) the length test off by one: 52 records are refused
IchimokuHasDataOffByOne(d) == ~d.isNone /\ FrameLen(d) > MinIchimokuLen

\* line 51: data is not None and len(data) >= 52
IchimokuHasData(d) == ~d.isNone /\ FrameLen(d) >= MinIchimokuLen

\* (mutant) a conversion line over 8 positions instead of 9
TenkanSenShortWindow(d) ==
    SeriesHalf(SeriesAdd(RollingMax(Column(d, "high"), TenkanWindow - 1),
                         RollingMin(Column(d, "low"), TenkanWindow - 1)))

\* line 57
TenkanSen(d) ==
    SeriesHalf(SeriesAdd(RollingMax(Column(d, "high"), TenkanWindow),
                         RollingMin(Column(d, "low"), TenkanWindow)))

\* line 60
KijunSen(d) ==
    SeriesHalf(SeriesAdd(RollingMax(Column(d, "high"), KijunWindow),
                         RollingMin(Column(d, "low"), KijunWindow)))

\* line 63
SenkouSpanA(d) ==
    Shift(SeriesHalf(SeriesAdd(TenkanSen(d), KijunSen(d))), ShiftPeriods)

\* (mutant) the 52-window midpoint without its shift forward
SenkouSpanBUnshifted(d) ==
    SeriesHalf(SeriesAdd(RollingMax(Column(d, "high"), SenkouBWindow),
                         RollingMin(Column(d, "low"), SenkouBWindow)))

\* line 66
SenkouSpanB(d) ==
    Shift(SeriesHalf(SeriesAdd(RollingMax(Column(d, "high"), SenkouBWindow),
                               RollingMin(Column(d, "low"), SenkouBWindow))),
          ShiftPeriods)

\* (mutant) the lagging span shifted forward instead of backward
ChikouSpanForward(d) == Shift(Column(d, "lastTrade"), ShiftPeriods)

\* lines 54, 69
ChikouSpan(d) == Shift(Column(d, "lastTrade"), 0 - ShiftPeriods)

NoComponents == [isNone |-> TRUE]

\* The value returned and the streamlit calls made by calculate_ichimoku(d)
CalculateIchimoku(d) ==
    IF IchimokuHasData(d)
    THEN [value |-> [isNone        |-> FALSE,
                     tenkan_sen    |-> TenkanSen(d),
                     kijun_sen     |-> KijunSen(d),
                     senkou_span_a |-> SenkouSpanA(d),
                     senkou_span_b |-> SenkouSpanB(d),
                     chikou_span   |-> ChikouSpan(d)],
          out   |-> << >>]
    ELSE [value |-> NoComponents, out |-> <<ErrIchimoku>>]

\* ---------------------------------------------------------------- log_trade
\* line 100: the row written for trade_info at time now
LogRow(trade_info, now) ==
    [timestamp |-> now,
     symbol    |-> trade_info.symbol,
     action    |-> trade_info.action,
     price     |-> trade_info.price,
     complete  |-> TRUE]

\* What a write of `row` that fails part-way leaves in the file: the
\* beginning of its text, without the line end
TornRow(row) == [row EXCEPT !.complete = FALSE]

\* lines 98-100: the file after open(mode='a') and writerow
AppendRow(file, row) == Append(file, row)

\* log_trade(trade_info) on the file contents `file`, the storage being in
\* mode w.  An OSError of open() or of the flush at the end of the with
\* block leaves log_trade before line 101.
LogTrade(file, trade_info, now, w) ==
    IF w = "ok"
    THEN [file   |-> AppendRow(file, LogRow(trade_info, now)),
          out    |-> <<MsgLogged>>,
          raised |-> "none"]
    ELSE IF w = "full"
    THEN [file   |-> AppendRow(file, TornRow(LogRow(trade_info, now))),
          out    |-> << >>,
          raised |-> "OSError"]
    ELSE [file |-> file, out |-> << >>, raised |-> "OSError"]

\* --------------------------------------------------- apply_trading_strategy
\* (mutant) the length test off by one: 4 records are accepted
StrategyHasDataOffByOne(d) == ~d.isNone /\ FrameLen(d) >= MinStrategyLen - 1

\* line 78: data is not None and len(data) >= 5
StrategyHasData(d) == ~d.isNone /\ FrameLen(d) >= MinStrategyLen

\* line 79
AvgClose(d) == Mean(SeriesHead(Column(d, "close"), HeadCount))

\* line 80
FirstOpen(d) == Column(d, "open")[0]

\* lines 82-90: the action
StrategyAction(d) ==
    IF CellLess(FirstOpen(d), AvgClose(d)) THEN "buy call"
    ELSE IF CellLess(AvgClose(d), FirstOpen(d)) THEN "buy put"
    ELSE "hold"

\* lines 84, 87, 90: its message
ActionMsg(action) ==
    IF action = "buy call" THEN MsgCall
    ELSE IF action = "buy put" THEN MsgPut
    ELSE MsgHold

\* line 92: the dictionary handed to log_trade
TradeInfo(d, action, target_price) ==
    [symbol |-> Column(d, "symbol")[0][1],
     action |-> action,
     price  |-> target_price]

\* (mutant) a hold decision is not logged
ApplyTradingStrategySkipHold(d, target_price, file, now, w) ==
    IF ~d.isNone /\ FrameLen(d) >= MinStrategyLen
    THEN LET action == StrategyAction(d)
             lt     == IF action = "hold"
                       THEN [file |-> file, out |-> << >>, raised |-> "none"]
                       ELSE LogTrade(file, TradeInfo(d, action, target_price), now, w)
         IN [action |-> action,
             file   |-> lt.file,
             out    |-> <<ActionMsg(action)>> \o lt.out,
             raised |-> lt.raised]
    ELSE [action |-> "", file |-> file, out |-> <<ErrStrategy>>, raised |-> "none"]

\* apply_trading_strategy(d, target_price) on the file contents `file`
ApplyTradingStrategy(d, target_price, file, now, w) ==
    IF StrategyHasData(d)
    THEN LET action == StrategyAction(d)
             lt     == LogTrade(file, TradeInfo(d, action, target_price), now, w)
         IN [action |-> action,
             file   |-> lt.file,
             out    |-> <<ActionMsg(action)>> \o lt.out,
             raised |-> lt.raised]
    ELSE [action |-> "", file |-> file, out |-> <<ErrStrategy>>, raised |-> "none"]

\* ------------------------------------------------------------ etrade_oauth
\* What the OAuth exchange does:
\*   "request_token_raises"  lines 22-24 raise
\*   "no_verifier"           the verifier input is still empty
\*   "verified"              fetch_access_token succeeds
\*   "access_token_raises"   fetch_access_token raises
OauthOutcomes ==
    {"request_token_raises", "no_verifier", "verified", "access_token_raises"}

\* The value returned (session: truthy or None), the streamlit calls made
\* and the exception raised by etrade_oauth(); lb: `logging` is bound.
\* The except handler calls logging.error (line 31) before st.error.
EtradeOauth(outcome, lb) ==
    LET shown == IF outcome = "request_token_raises" THEN << >>
                 ELSE <<MsgAuthUrl, MsgVerifier>>
    IN IF outcome \in {"no_verifier", "verified"}
       THEN [session |-> TRUE, out |-> shown, raised |-> "none"]
       ELSE IF lb
       THEN [session |-> FALSE, out |-> Append(shown, ErrAuth), raised |-> "none"]
       ELSE [session |-> FALSE, out |-> shown, raised |-> "NameError"]

\* ------------------------------------------------------- fetch_stock_data
\* The upstream answer to session.get(...).json():
\*   raises           session.get or response.json() raises
\*   isNone           response.json() is None
\*   hasQuoteResponse 'QuoteResponse' in data
\*   hasQuoteData     'QuoteData' in data['QuoteResponse']
\*   quotes           data['QuoteResponse']['QuoteData']; each entry has
\*                    its 'All' record (hasAll) or lacks the key
Quote(i, k, den, hasAll) == [hasAll |-> hasAll, all |-> MkRow(i, k, den)]

Responses ==
    {[raises |-> TRUE, isNone |-> FALSE, hasQuoteResponse |-> FALSE,
      hasQuoteData |-> FALSE, quotes |-> << >>],
     [raises |-> FALSE, isNone |-> TRUE, hasQuoteResponse |-> FALSE,
      hasQuoteData |-> FALSE, quotes |-> << >>],
     [raises |-> FALSE, isNone |-> FALSE, hasQuoteResponse |-> FALSE,
      hasQuoteData |-> FALSE, quotes |-> << >>],
     [raises |-> FALSE, isNone |-> FALSE, hasQuoteResponse |-> TRUE,
      hasQuoteData |-> FALSE, quotes |-> << >>]}
    \cup
    {[raises |-> FALSE, isNone |-> FALSE, hasQuoteResponse |-> TRUE,
      hasQuoteData |-> TRUE,
      quotes |-> [j \in 1 .. q |-> Quote(j - 1 + o, k, den, j > 1 \/ firstHasAll)]] :
        q \in 0 .. MaxQuotes, o \in 0 .. MaxQuotes, k \in 1 .. NumSeeds,
        den \in Denominators, firstHasAll \in BOOLEAN}

\* (mutant) a table with one row per quote of the response
QuoteFrameAllQuotes(response) ==
    Frame([j \in 1 .. Len(response.quotes) |-> response.quotes[j].all])

\* line 40: the table built from the response
QuoteFrame(response) == Frame(<<response.quotes[1].all>>)

\* lines 44-47: the except handler; logging.error comes first
FetchFailed(lb) ==
    IF lb
    THEN [value |-> NoneFrame, out |-> <<ErrFetch>>, raised |-> "none"]
    ELSE [value |-> NoneFrame, out |-> << >>, raised |-> "NameError"]

\* The value returned, the streamlit calls made and the exception raised
\* by fetch_stock_data; lb: `logging` is bound
FetchStockData(response, lb) ==
    IF response.raises \/ response.isNone          \* exception or TypeError
    THEN FetchFailed(lb)
    ELSE IF /\ response.hasQuoteResponse
            /\ response.hasQuoteData
            /\ Len(response.quotes) > 0
         THEN IF response.quotes[1].hasAll
              THEN [value |-> QuoteFrame(response), out |-> << >>, raised |-> "none"]
              ELSE FetchFailed(lb)                 \* KeyError
         ELSE [value |-> NoneFrame, out |-> <<ErrNoData>>, raised |-> "none"]

\* ------------------------------------------------------------------- state
\* ret records the last call: the function, its target_price argument, the
\* action it chose ("" when none), the exception it raised ("none" when it
\* returned), the value it returned, and the trade log and the storage mode
\* it was called with.
CallRecord(fn, target_price, action, raised, value, before, mode) ==
    [fn |-> fn, target_price |-> target_price, action |-> action,
     raised |-> raised, value |-> value, before |-> before, storage |-> mode]

NoCall == CallRecord("", NaN, "", "none", NoComponents, << >>, "ok")

\* A row left in trade_log.csv by an earlier session
OldRow == [timestamp |-> 0, symbol |-> "OLD", action |-> "hold", price |-> 1,
           complete |-> TRUE]

InitialLogs == {<< >>, <<OldRow>>}

\* The functions called on their own, on a series and a target price
Init ==
    /\ data \in ShortSeries
    /\ log = << >>
    /\ storage \in StorageModes
    /\ ret = NoCall
    /\ st_out = << >>
    /\ pc = "core"
    /\ session = FALSE
    /\ symbol = ""
    /\ logging_bound = FALSE

\* A caller invokes calculate_ichimoku(data)
CallCalculateIchimoku ==
    /\ pc = "core"
    /\ LET r == CalculateIchimoku(data)
       IN /\ ret' = CallRecord("calculate_ichimoku", NaN, "", "none", r.value,
                               log, storage)
          /\ st_out' = r.out
    /\ UNCHANGED <<data, log, storage, pc, session, symbol, logging_bound>>

\* A caller invokes apply_trading_strategy(data, target_price)
CallApplyTradingStrategy ==
    /\ pc = "core"
    /\ Len(log) < MaxLog
    /\ \E target_price \in TargetPrices, now \in Clock :
        LET r == ApplyTradingStrategy(data, target_price, log, now, storage)
        IN /\ log' = r.file
           /\ ret' = CallRecord("apply_trading_strategy", Num(target_price),
                                r.action, r.raised, NoComponents, log, storage)
           /\ st_out' = r.out
    /\ UNCHANGED <<data, storage, pc, session, symbol, logging_bound>>

\* The environment changes what a write to trade_log.csv meets
StorageChange ==
    /\ pc = "core"
    /\ storage' \in StorageModes \ {storage}
    /\ UNCHANGED <<data, log, ret, st_out, pc, session, symbol, logging_bound>>

Next == CallCalculateIchimoku \/ CallApplyTradingStrategy \/ StorageChange

Spec == Init /\ [][Next]_vars

\* The indicator computation alone, on every series length up to MaxLen
IchimokuInit ==
    /\ data \in QuoteSeries
    /\ log = << >>
    /\ storage = "ok"
    /\ ret = NoCall
    /\ st_out = << >>
    /\ pc = "core"
    /\ session = FALSE
    /\ symbol = ""
    /\ logging_bound = FALSE

IchimokuNext == CallCalculateIchimoku

IchimokuSpec == IchimokuInit /\ [][IchimokuNext]_vars

\* -------------------------------------------------------------------- main
SymbolInputs == {"", "AAPL", "MSFT"}

\* The script is about to be executed from its first line
MainInit ==
    /\ data = NoneFrame
    /\ log \in InitialLogs
    /\ storage \in StorageModes
    /\ ret = NoCall
    /\ st_out = << >>
    /\ pc = "load"
    /\ session = FALSE
    /\ symbol = ""
    /\ logging_bound \in BOOLEAN

\* lines 1-17 and 134: the imports, logging.basicConfig (line 11) and the
\* definitions; NameError at line 11 when `logging` is unbound
ModuleLoad ==
    /\ pc = "load"
    /\ IF logging_bound
       THEN /\ pc' = "main"
            /\ ret' = ret
       ELSE /\ pc' = "crashed"
            /\ ret' = CallRecord("<module>", NaN, "", "NameError", NoComponents,
                                 log, storage)
    /\ UNCHANGED <<data, log, storage, st_out, session, symbol, logging_bound>>

\* lines 119-121: st.title and etrade_oauth(), which returns the session,
\* or None after an exception it reports
MainAuth ==
    /\ pc = "main"
    /\ \E outcome \in OauthOutcomes :
        LET r == EtradeOauth(outcome, logging_bound)
        IN /\ session' = r.session
           /\ st_out' = <<MsgTitle>> \o r.out
           /\ pc' = IF r.raised # "none" THEN "crashed"
                    ELSE IF r.session THEN "symbol" ELSE "done"
           /\ ret' = IF r.raised # "none"
                     THEN CallRecord("etrade_oauth", NaN, "", r.raised,
                                     NoComponents, log, storage)
                     ELSE ret
    /\ UNCHANGED <<data, log, storage, symbol, logging_bound>>

\* lines 122-123: the symbol input; empty until the user types one
MainSymbol ==
    /\ pc = "symbol"
    /\ \E sym \in SymbolInputs :
        /\ symbol' = sym
        /\ pc' = IF sym # "" THEN "fetch" ELSE "done"
    /\ st_out' = Append(st_out, MsgSymbol)
    /\ UNCHANGED <<data, log, storage, ret, session, logging_bound>>

\* lines 124-126
MainFetch ==
    /\ pc = "fetch"
    /\ \E response \in Responses :
        LET r == FetchStockData(response, logging_bound)
        IN /\ data' = r.value
           /\ st_out' = st_out \o r.out
                        \o (IF r.value.isNone THEN << >> ELSE <<MsgData>>)
           /\ pc' = IF r.raised # "none" THEN "crashed"
                    ELSE IF r.value.isNone THEN "done" ELSE "ichimoku"
           /\ ret' = IF r.raised # "none"
                     THEN CallRecord("fetch_stock_data", NaN, "", r.raised,
                                     NoComponents, log, storage)
                     ELSE ret
    /\ UNCHANGED <<log, storage, session, symbol, logging_bound>>

\* lines 127-130: the indicator, and the chart when it returned the series
MainIchimoku ==
    /\ pc = "ichimoku"
    /\ LET r == CalculateIchimoku(data)
       IN /\ ret' = CallRecord("calculate_ichimoku", NaN, "", "none", r.value,
                               log, storage)
          /\ st_out' = st_out \o r.out
                       \o (IF r.value.isNone THEN << >> ELSE <<MsgChart>>)
    /\ pc' = "strategy"
    /\ UNCHANGED <<data, log, storage, session, symbol, logging_bound>>

\* lines 131-132: the target price input and the strategy; an exception of
\* log_trade ends the run
MainStrategy ==
    /\ pc = "strategy"
    /\ Len(log) < MaxLog
    /\ \E target_price \in TargetPrices, now \in Clock :
        LET r == ApplyTradingStrategy(data, target_price, log, now, storage)
        IN /\ log' = r.file
           /\ ret' = CallRecord("apply_trading_strategy", Num(target_price),
                                r.action, r.raised, NoComponents, log, storage)
           /\ st_out' = Append(st_out, MsgTarget) \o r.out
           /\ pc' = IF r.raised = "none" THEN "done" ELSE "crashed"
    /\ UNCHANGED <<data, storage, session, symbol, logging_bound>>

\* streamlit executes the script again on the next interaction; the trade
\* log file stays, the storage may have changed
MainRerun ==
    /\ pc \in {"done", "crashed"}
    /\ pc' = "load"
    /\ data' = NoneFrame
    /\ ret' = NoCall
    /\ st_out' = << >>
    /\ session' = FALSE
    /\ symbol' = ""
    /\ storage' \in StorageModes
    /\ UNCHANGED <<log, logging_bound>>

MainNext ==
    \/ ModuleLoad
    \/ MainAuth
    \/ MainSymbol
    \/ MainFetch
    \/ MainIchimoku
    \/ MainStrategy
    \/ MainRerun

MainSpec == MainInit /\ [][MainNext]_vars

\* ================================================================== claims
\* Helpers of the claims: the spec's formulas, stated on the rows directly.
IsApplyCall == ret.fn = "apply_trading_strategy"
IsIchimokuCall == ret.fn = "calculate_ichimoku"
EnoughForStrategy == ~data.isNone /\ Len(data.rows) >= 5
EnoughForIchimoku == ~data.isNone /\ Len(data.rows) >= 52
Positions == 0 .. Len(data.rows) - 1
HighOver(a, b) ==
    LET S == {data.rows[j + 1].high : j \in a .. b}
    IN CHOOSE m \in S : \A x \in S : ~FLess(m, x)
LowOver(a, b) ==
    LET S == {data.rows[j + 1].low : j \in a .. b}
    IN CHOOSE m \in S : \A x \in S : ~FLess(x, m)
\* The exact sum a + b, not rounded
ExactAdd(a, b) ==
    LET e == IF a.e < b.e THEN a.e ELSE b.e
    IN Dyadic(BAdd(BShl(a.m, a.e - e), BShl(b.m, b.e - e)), e)
\* The exact midpoint (a + b) / 2, and the double nearest to it
ExactMidpoint(a, b) ==
    LET t == ExactAdd(a, b) IN IF t.m = << >> THEN t ELSE [m |-> t.m, e |-> t.e - 1]
Midpoint(a, b) ==
    LET x == ExactMidpoint(a, b) IN Round53(x.m, x.e, FALSE)
IsPrefix(s, t) == Len(s) <= Len(t) /\ SubSeq(t, 1, Len(s)) = s
Emitted(m) == \E n \in 1 .. Len(st_out) : st_out[n] = m
\* The row the last call had to write
OwnRow ==
    [timestamp |-> log[Len(log)].timestamp,
     symbol    |-> data.rows[1].symbol,
     action    |-> ret.action,
     price     |-> ret.target_price[1],
     complete  |-> TRUE]

\* The action by the arithmetic mean: the exact sum of the first five closes
\* against five times the first open
ExpectedAction ==
    LET sum5 == ExactAdd(ExactAdd(ExactAdd(ExactAdd(data.rows[1].close,
                    data.rows[2].close), data.rows[3].close),
                    data.rows[4].close), data.rows[5].close)
        open5 == Dyadic(BMulSmall(data.rows[1].open.m, 5), data.rows[1].open.e)
    IN IF FLess(open5, sum5) THEN "buy call"
       ELSE IF FLess(sum5, open5) THEN "buy put"
       ELSE "hold"

\* C1 as stated: on a series of at least 5 records the action is decided by
\* the arithmetic mean of the closes of the first five records against the
\* open of the first record: above gives buy call, below gives buy put,
\* exact equality gives hold.
C1_ActionFromFirstFive ==
    (IsApplyCall /\ EnoughForStrategy) => ret.action = ExpectedAction

\* C2 as stated: EVERY call of apply_trading_strategy appends exactly one
\* entry, with the target price and the first record's symbol.
C2_EveryCallAppends ==
    IsApplyCall =>
        /\ Len(log) = Len(ret.before) + 1
        /\ log[Len(log)].complete
        /\ log[Len(log)].price = ret.target_price[1]
        /\ log[Len(log)].symbol = data.rows[1].symbol

\* C2 amended: every call on a series of at least 5 records whose write to
\* the log succeeds appends exactly one complete row at the end of the
\* file, whatever the action, and the row has the caller's target price and
\* the first record's symbol.
C2_CompletedCallAppends ==
    (IsApplyCall /\ EnoughForStrategy /\ ret.storage = "ok") =>
        /\ ret.raised = "none"
        /\ Len(log) = Len(ret.before) + 1
        /\ SubSeq(log, 1, Len(ret.before)) = ret.before
        /\ log[Len(log)].complete
        /\ log[Len(log)].price = ret.target_price[1]
        /\ log[Len(log)].symbol = data.rows[1].symbol
        /\ log[Len(log)].action = ret.action

\* C2 witness: a hold decision was logged at a non-zero target price.
C2_Witness ==
    /\ IsApplyCall
    /\ ret.action = "hold"
    /\ ret.raised = "none"
    /\ Len(log) = Len(ret.before) + 1
    /\ log[Len(log)].price > 0

\* C3: a call with a missing series or one shorter than 5 reports
\* insufficient data, chooses no action and leaves the trade log unchanged.
C3_InsufficientStrategyData ==
    (IsApplyCall /\ ~EnoughForStrategy) =>
        /\ st_out = <<ErrStrategy>>
        /\ ret.action = ""
        /\ ret.raised = "none"
        /\ log = ret.before

\* C3 witness: the strategy was called on a series of 4 records.
C3_Witness ==
    /\ IsApplyCall
    /\ ~data.isNone
    /\ Len(data.rows) = 4

\* C4: calculate_ichimoku is all-or-nothing: no series and an
\* insufficient-data report below 52 records or without a series, exactly
\* five series of the input's length from 52 records on.
C4_AllOrNothing ==
    IsIchimokuCall =>
        IF EnoughForIchimoku
        THEN /\ DOMAIN ret.value = {"isNone", "tenkan_sen", "kijun_sen",
                                    "senkou_span_a", "senkou_span_b", "chikou_span"}
             /\ ~ret.value.isNone
             /\ \A f \in DOMAIN ret.value \ {"isNone"} :
                    DOMAIN ret.value[f] = Positions
             /\ st_out = << >>
        ELSE /\ ret.value = NoComponents
             /\ st_out = <<ErrIchimoku>>

\* C4 witness: the indicator was computed on exactly 52 records.
C4_Witness ==
    /\ IsIchimokuCall
    /\ Len(data.rows) = 52
    /\ ~ret.value.isNone

\* C5: Tenkan-sen[i] is the midpoint of the highest high and the lowest low
\* over positions i-8..i (the double nearest to it), undefined for i < 8;
\* Kijun-sen[i] the same over i-25..i, undefined for i < 25.
C5_RollingMidpoints ==
    (IsIchimokuCall /\ EnoughForIchimoku) =>
        \A i \in Positions :
            /\ ret.value.tenkan_sen[i] =
                 IF i >= 8 THEN <<Midpoint(HighOver(i - 8, i), LowOver(i - 8, i))>>
                 ELSE << >>
            /\ ret.value.kijun_sen[i] =
                 IF i >= 25 THEN <<Midpoint(HighOver(i - 25, i), LowOver(i - 25, i))>>
                 ELSE << >>

\* C5 witness: the lines were computed on a series of decimal prices whose
\* 9-window midpoint at the last position is not itself a double, so that
\* the line holds the double next to it, and differs from the 26-window
\* midpoint.
C5_Witness ==
    /\ IsIchimokuCall
    /\ EnoughForIchimoku
    /\ ret.value.tenkan_sen[Len(data.rows) - 1] # << >>
    /\ ret.value.tenkan_sen[Len(data.rows) - 1] #
         <<ExactMidpoint(HighOver(Len(data.rows) - 9, Len(data.rows) - 1),
                         LowOver(Len(data.rows) - 9, Len(data.rows) - 1))>>
    /\ ret.value.tenkan_sen[Len(data.rows) - 1] # ret.value.kijun_sen[Len(data.rows) - 1]

\* C6: Senkou Span A[i] is the mean of Tenkan-sen and Kijun-sen at i-26,
\* undefined for i < 51; Senkou Span B[i] is the 52-window midpoint at i-26,
\* that is over positions i-77..i-26, undefined for i < 77; both have the
\* positions 0..N-1 of the input and no other.
C6_LeadingSpans ==
    (IsIchimokuCall /\ EnoughForIchimoku) =>
        /\ DOMAIN ret.value.senkou_span_a = Positions
        /\ DOMAIN ret.value.senkou_span_b = Positions
        /\ \A i \in Positions :
            /\ ret.value.senkou_span_a[i] =
                 IF i >= 51
                 THEN <<Midpoint(ret.value.tenkan_sen[i - 26][1],
                                 ret.value.kijun_sen[i - 26][1])>>
                 ELSE << >>
            /\ ret.value.senkou_span_b[i] =
                 IF i >= 77
                 THEN <<Midpoint(HighOver(i - 77, i - 26), LowOver(i - 77, i - 26))>>
                 ELSE << >>

\* C6 witness: a series long enough for Senkou Span B to be defined at its
\* last position.
C6_Witness ==
    /\ IsIchimokuCall
    /\ Len(data.rows) >= 78
    /\ ret.value.senkou_span_b[Len(data.rows) - 1] # << >>
    /\ ret.value.senkou_span_a[51] # << >>

\* C7: Chikou Span[i] is lastTrade[i+26] for i <= N-27 and undefined for
\* the last 26 positions.
C7_ChikouSpan ==
    (IsIchimokuCall /\ EnoughForIchimoku) =>
        \A i \in Positions :
            ret.value.chikou_span[i] =
                IF i <= Len(data.rows) - 27
                THEN <<data.rows[i + 27].lastTrade>>
                ELSE << >>

\* C7 witness: the span was computed and its first value differs from the
\* first record's own lastTrade.
C7_Witness ==
    /\ IsIchimokuCall
    /\ EnoughForIchimoku
    /\ ret.value.chikou_span[0] # << >>
    /\ ret.value.chikou_span[0] # <<data.rows[1].lastTrade>>

\* C8: the trade log is append-only: a call leaves the old contents as a
\* prefix of the new ones, a call that logs adds exactly its one row at the
\* end (also when that row repeats an earlier one), no line of the file is
\* ever changed afterwards, and calculate_ichimoku and failed strategy
\* evaluations leave the log as it was.
C8_AppendOnly ==
    /\ IsPrefix(ret.before, log)
    /\ \A n \in 1 .. Len(log) : log[n].complete
    /\ (IsIchimokuCall => log = ret.before)
    /\ (IsApplyCall /\ (ret.action = "" \/ ret.raised # "none") => log = ret.before)
    /\ (IsApplyCall /\ ret.action # "" /\ ret.raised = "none" =>
            log = Append(ret.before, OwnRow))

\* C9: when the append fails, the call ends with the error (not caught, not
\* retried, not buffered), without the 'Trade logged' message and without
\* anything new in the log; a later call with a writable store adds its own
\* row, and its line holds nothing else.
C9_PersistenceFailure ==
    (IsApplyCall /\ EnoughForStrategy) =>
        IF ret.storage = "ok"
        THEN /\ ret.raised = "none"
             /\ log = Append(ret.before, OwnRow)
             /\ (ret.before = << >> \/ ret.before[Len(ret.before)].complete)
        ELSE /\ ret.raised = "OSError"
             /\ log = ret.before
             /\ ~Emitted(MsgLogged)

\* C10: in main the series is absent or has exactly one record, so the
\* indicator and the strategy both report insufficient data, no chart is
\* drawn and nothing is logged; without data neither function is called.
C10_MainNeverHasEnoughData ==
    /\ data.isNone \/ Len(data.rows) = 1
    /\ log \in InitialLogs
    /\ log = ret.before \/ ret = NoCall
    /\ ~Emitted(MsgChart) /\ ~Emitted(MsgLogged)
    /\ ret.value = NoComponents /\ ret.action = ""
    /\ (IsIchimokuCall => st_out[Len(st_out)] = ErrIchimoku)
    /\ (IsApplyCall =>
            /\ Emitted(ErrIchimoku)
            /\ st_out[Len(st_out)] = ErrStrategy
            /\ ret.raised = "none")
    /\ (pc \in {"strategy", "done"} /\ ~data.isNone => Emitted(ErrIchimoku))
    /\ (pc = "done" /\ ~data.isNone => IsApplyCall)
    /\ (data.isNone => ~IsIchimokuCall /\ ~IsApplyCall /\ pc \notin {"ichimoku", "strategy"})

\* C10 witness: a run of main that fetched a quote and reached its end,
\* with a row of an earlier session in the log.
C10_Witness ==
    /\ pc = "done"
    /\ ~data.isNone
    /\ IsApplyCall
    /\ log = <<OldRow>>

====
